---- MODULE Spec2Model ----
(***************************************************************************)
(* Model of merge_templates.py: the tag-preserving YAML loader/dumper      *)
(* hooks and the section-scoped merge of CloudFormation template           *)
(* fragments into a base template.                                         *)
(*                                                                         *)
(* Python values are records [kind, v]:                                    *)
(*   none   v = <<>>            bool  v \in BOOLEAN      int  v \in Int     *)
(*   str    v = sequence of one-character strings                          *)
(*   list   v = sequence of values                                         *)
(*   dict   v = sequence of <<key, value>> pairs in insertion order        *)
(*   tagged v = <<tag, value>>, an instance of class Tagged                *)
(*   ref    v = index of a dict object in the heap (object identity)       *)
(*   alias  v = a top-level key of the same decoded document: the value is *)
(*              the very dict object bound to that key (a YAML alias *x of *)
(*              the anchor &x set on that key's mapping)                   *)
(* Item names (dict keys) are one-character strings.                       *)
(***************************************************************************)
EXTENDS Integers, Sequences, FiniteSets, TLC

VARIABLES files, pc, fi, si, heap, base, merged, data, loaded, err, out,
          tpc, node, tval, tnode, tval2

vars == <<files, pc, fi, si, heap, base, merged, data, loaded, err, out,
          tpc, node, tval, tnode, tval2>>

mergeVars == <<files, pc, fi, si, heap, base, merged, data, loaded, err, out>>

tagVars == <<tpc, node, tval, tnode, tval2>>

(***************************************************************************)
(* Bounds of the explored inputs.                                          *)
(***************************************************************************)
MaxFrags == 2

(***************************************************************************)
(* Python values.                                                          *)
(***************************************************************************)
PyNone == [kind |-> "none", v |-> <<>>]

PyBool(b) == [kind |-> "bool", v |-> b]

PyInt(n) == [kind |-> "int", v |-> n]

PyStr(chars) == [kind |-> "str", v |-> chars]

PyList(items) == [kind |-> "list", v |-> items]

PyDict(pairs) == [kind |-> "dict", v |-> pairs]

Tagged(tag, value) == [kind |-> "tagged", v |-> <<tag, value>>]

Ref(id) == [kind |-> "ref", v |-> id]

Alias(key) == [kind |-> "alias", v |-> key]

\* Python truthiness: what `x or {}` tests.
Falsy(x) ==
    \/ x.kind = "none"
    \/ x.kind = "bool" /\ x.v = FALSE
    \/ x.kind = "int" /\ x.v = 0
    \/ x.kind \in {"str", "list", "dict"} /\ x.v = <<>>

\* isinstance(x, dict): a dict by value or a reference to a dict object.
IsDict(x) == x.kind \in {"dict", "ref"}

\* Keys of a sequence of <<key, value>> pairs, in order.
KeySeq(pairs) == [k \in DOMAIN pairs |-> pairs[k][1]]

KeySet(pairs) == {pairs[k][1] : k \in DOMAIN pairs}

HasKey(pairs, key) == \E k \in DOMAIN pairs : pairs[k][1] = key

\* d[key] for a key that is present.
Lookup(pairs, key) == pairs[CHOOSE k \in DOMAIN pairs : pairs[k][1] = key][2]

(***************************************************************************)
(* The four merged sections, in the order merge_templates visits them.     *)
(***************************************************************************)
Sections == <<"Parameters", "Conditions", "Resources", "Outputs">>

SectionSet == {Sections[k] : k \in DOMAIN Sections}

\* Paths: the base's, and the k-th fragment's (k = 1, 2, ...).
BasePath == <<"base", 0>>

FragPath(k) == <<"fragment", k>>

NoError == [type |-> "none", path |-> <<"", 0>>, section |-> "", key |-> ""]

\* ValueError(f"{path} must contain a YAML mapping")
LoadError(path) ==
    [type |-> "LoadError", path |-> path, section |-> "", key |-> ""]

\* ValueError(f"{path} section {section} must be a mapping")
SectionTypeError(path, section) ==
    [type |-> "SectionTypeError", path |-> path, section |-> section, key |-> ""]

\* ValueError(f"Duplicate {section} key {key} in {path}")
DuplicateKeyError(section, key, path) ==
    [type |-> "DuplicateKeyError", path |-> path, section |-> section, key |-> key]

\* The interpreter's TypeError for `key in x` / `x[key] = item` on a non-dict.
PyTypeError(section, key, path) ==
    [type |-> "TypeError", path |-> path, section |-> section, key |-> key]

(***************************************************************************)
(* Objects.  A loaded document is its top-level sequence of <<key, slot>>  *)
(* pairs; a slot holds an immutable value inline, or Ref(id) when the      *)
(* value is a dict: heap[id] is that dict object's content, so that two    *)
(* slots holding the same Ref share the object.  yaml.load builds one      *)
(* object for an anchored mapping and hands the same object to each of its *)
(* aliases, at the top level or as an item of a later top-level mapping.   *)
(***************************************************************************)
\* The content of a new dict object: its alias items bound to the objects
\* of the top-level keys loaded so far.
BindItems(pairs, tree) ==
    [k \in DOMAIN pairs |->
        <<pairs[k][1],
          IF pairs[k][2].kind = "alias" THEN Lookup(tree, pairs[k][2].v)
          ELSE pairs[k][2]>>]

RECURSIVE AllocFrom(_, _, _)
AllocFrom(pairs, tree, h) ==
    IF pairs = <<>> THEN [tree |-> tree, heap |-> h]
    ELSE LET key == Head(pairs)[1]
             val == Head(pairs)[2]
             h1 == IF val.kind = "dict" THEN Append(h, BindItems(val.v, tree)) ELSE h
             slot == CASE val.kind = "dict" -> Ref(Len(h1))
                       [] val.kind = "alias" -> Lookup(tree, val.v)
                       [] OTHER -> val
         IN AllocFrom(Tail(pairs), Append(tree, <<key, slot>>), h1)

\* The objects of the tree yaml.load returns for the decoded top-level pairs.
AllocEntries(pairs, h) == AllocFrom(pairs, <<>>, h)

\* The value a slot stands for, given the heap.
SlotValue(slot, h) == IF slot.kind = "ref" THEN PyDict(h[slot.v]) ELSE slot

\* The value, without object identity, that a slot or item stands for.
RECURSIVE ResolveValue(_, _)
ResolveValue(x, h) ==
    IF x.kind = "ref"
    THEN PyDict([k \in DOMAIN h[x.v] |->
                   <<h[x.v][k][1], ResolveValue(h[x.v][k][2], h)>>])
    ELSE x

\* The document a tree stands for, given the heap.
Deref(tree, h) ==
    PyDict([k \in DOMAIN tree |-> <<tree[k][1], ResolveValue(tree[k][2], h)>>])

\* Variant of load_yaml that rejects whatever is falsy: `if not data`.
load_yaml_RejectEmpty(root, path) ==
    IF Falsy(root) \/ root.kind # "dict"
    THEN [err |-> LoadError(path), data |-> PyDict(<<>>)]
    ELSE [err |-> NoError, data |-> root]

\* _load_yaml: the decoded root `or {}`, rejected unless it is a dict.
load_yaml(root, path) ==
    LET loadedData == IF Falsy(root) THEN PyDict(<<>>) ELSE root
    IN IF loadedData.kind # "dict"
       THEN [err |-> LoadError(path), data |-> PyDict(<<>>)]
       ELSE [err |-> NoError, data |-> loadedData]

\* Variant of PyIn that never finds the key: the duplicate test left out.
PyIn_NeverFound(key, slot, h) ==
    IF slot.kind \in {"ref", "str", "list"} THEN 0 ELSE 2

\* `key in x` for a str key: 0 = False, 1 = True, 2 = raises TypeError.
PyIn(key, slot, h) ==
    CASE slot.kind = "ref" -> IF HasKey(h[slot.v], key) THEN 1 ELSE 0
      [] slot.kind = "str" -> IF \E k \in DOMAIN slot.v : slot.v[k] = key THEN 1 ELSE 0
      [] slot.kind = "list" ->
            IF \E k \in DOMAIN slot.v : slot.v[k] = PyStr(<<key>>) THEN 1 ELSE 0
      [] OTHER -> 2

\* The loop of _merge_section over the items of the source section.
RECURSIVE MergeItems(_, _, _, _, _)
MergeItems(h, target, items, section, path) ==
    IF items = <<>> THEN [heap |-> h, err |-> NoError]
    ELSE LET key == Head(items)[1]
             item == Head(items)[2]
             found == PyIn(key, target, h)
         IN CASE found = 2 -> [heap |-> h, err |-> PyTypeError(section, key, path)]
              [] found = 1 -> [heap |-> h, err |-> DuplicateKeyError(section, key, path)]
              [] target.kind # "ref" ->
                    [heap |-> h, err |-> PyTypeError(section, key, path)]
              [] OTHER ->
                    MergeItems([h EXCEPT ![target.v] = Append(@, <<key, item>>)],
                               target, Tail(items), section, path)

\* _merge_section(dest, src, section, path) on the trees dest and src.
merge_section(dest, src, h, section, path) ==
    IF ~HasKey(src, section) THEN [dest |-> dest, heap |-> h, err |-> NoError]
    ELSE LET value == Lookup(src, section)
         IN IF ~IsDict(value)
            THEN [dest |-> dest, heap |-> h, err |-> SectionTypeError(path, section)]
            ELSE LET fresh == ~HasKey(dest, section)
                     h1 == IF fresh THEN Append(h, <<>>) ELSE h
                     dest1 == IF fresh THEN Append(dest, <<section, Ref(Len(h1))>>)
                              ELSE dest
                     r == MergeItems(h1, Lookup(dest1, section),
                                     SlotValue(value, h1).v, section, path)
                 IN [dest |-> dest1, heap |-> r.heap, err |-> r.err]

(***************************************************************************)
(* Input documents: what yaml.load returns for each file.                  *)
(***************************************************************************)
Names == {"A", "B"}

\* Sequences of distinct item names drawn from S.
InjSeqs(S) ==
    {q \in UNION {[1..m -> S] : m \in 0..Cardinality(S)} :
        \A a, b \in DOMAIN q : a # b => q[a] # q[b]}

\* A section mapping listing the names q; the k-th item's definition is k.
SectionMapping(q) == PyDict([k \in DOMAIN q |-> <<q[k], PyInt(k)>>])

\* Section values that are not mappings: a scalar, a sequence, null.
NonMappings == {PyStr(<<"A">>), PyList(<<PyStr(<<"A">>)>>), PyNone}

SectionValues == {SectionMapping(q) : q \in InjSeqs(Names)} \cup NonMappings

\* Documents with one section, with two sections, and with top-level keys
\* that are not sections.
OneSectionDocs ==
    {PyDict(<<<<"Resources", v>>>>) : v \in SectionValues}
    \cup {PyDict(<<<<"Parameters", v>>>>) :
            v \in {SectionMapping(<<"A">>), SectionMapping(<<"B", "A">>)}}

TwoSectionDocs ==
    {PyDict(<<<<"Conditions", x>>, <<"Outputs", y>>>>) :
        x \in {SectionMapping(<<"A">>), PyNone},
        y \in {SectionMapping(<<"A">>), PyStr(<<"A">>)}}

ExtraKeyDocs ==
    {PyDict(<<<<"Description", PyStr(<<"x">>)>>,
              <<"Resources", SectionMapping(<<"A">>)>>>>),
     PyDict(<<<<"Description", PyStr(<<"y">>)>>,
              <<"Metadata", SectionMapping(<<"A">>)>>,
              <<"Resources", SectionMapping(<<"B">>)>>>>)}

\* Documents in which an anchored mapping is used again through an alias:
\* as a second section, as a section after a key that is no section, and as
\* the definition of an item of a later section.
AliasDocs ==
    {PyDict(<<<<"Parameters", SectionMapping(<<"A">>)>>,
              <<"Resources", Alias("Parameters")>>>>),
     PyDict(<<<<"Metadata", SectionMapping(<<"A">>)>>,
              <<"Resources", Alias("Metadata")>>>>),
     PyDict(<<<<"Conditions", SectionMapping(<<"A">>)>>,
              <<"Outputs", PyDict(<<<<"B", Alias("Conditions")>>>>)>>>>)}

MappingDocs ==
    {PyDict(<<>>)} \cup OneSectionDocs \cup TwoSectionDocs \cup ExtraKeyDocs
    \cup AliasDocs

\* Roots that are not mappings: a falsy and a truthy one.
NonMappingRoots == {PyList(<<>>), PyStr(<<"A">>)}

Docs == MappingDocs \cup NonMappingRoots

FragLists == UNION {[1..n -> Docs] : n \in 0..MaxFrags}

(***************************************************************************)
(* merge_templates, one step per statement of its body.                    *)
(***************************************************************************)
TagIdle ==
    /\ tpc = "idle"
    /\ node = PyNone /\ tval = PyNone /\ tnode = PyNone /\ tval2 = PyNone

Init ==
    /\ files \in [base : Docs, frags : FragLists]
    /\ pc = "load_base"
    /\ fi = 0
    /\ si = 0
    /\ heap = <<>>
    /\ base = <<>>
    /\ merged = <<>>
    /\ data = <<>>
    /\ loaded = <<>>
    /\ err = NoError
    /\ out = [opened |-> FALSE, doc |-> PyNone]
    /\ TagIdle

\* Variant of AfterFragment that writes the output after the first fragment.
AfterFragment_DumpEarly(k) == "dump"

\* Where control goes after fragment k has been merged (or there are none).
AfterFragment(k) == IF k < Len(files.frags) THEN "load_frag" ELSE "dump"

\* base = _load_yaml(base_path); merged = dict(base)
LoadBase ==
    /\ pc = "load_base"
    /\ LET r == load_yaml(files.base, BasePath)
       IN IF r.err # NoError
          THEN /\ err' = r.err
               /\ pc' = "raised"
               /\ UNCHANGED <<heap, base, merged>>
          ELSE LET a == AllocEntries(r.data.v, heap)
               IN /\ heap' = a.heap
                  /\ base' = a.tree
                  /\ merged' = a.tree
                  /\ pc' = AfterFragment(0)
                  /\ err' = err
    /\ UNCHANGED <<files, fi, si, data, loaded, out, tagVars>>

\* for fragment in fragment_paths: data = _load_yaml(fragment)
LoadFragment ==
    /\ pc = "load_frag"
    /\ LET k == fi + 1
           r == load_yaml(files.frags[k], FragPath(k))
       IN /\ fi' = k
          /\ IF r.err # NoError
             THEN /\ err' = r.err
                  /\ pc' = "raised"
                  /\ UNCHANGED <<heap, data, loaded, si>>
             ELSE LET a == AllocEntries(r.data.v, heap)
                  IN /\ heap' = a.heap
                     /\ data' = a.tree
                     /\ loaded' = Append(loaded, a.tree)
                     /\ si' = 1
                     /\ pc' = "merge"
                     /\ err' = err
    /\ UNCHANGED <<files, base, merged, out, tagVars>>

\* for section in [...]: _merge_section(merged, data, section, fragment)
MergeSection ==
    /\ pc = "merge"
    /\ LET r == merge_section(merged, data, heap, Sections[si], FragPath(fi))
       IN /\ merged' = r.dest
          /\ heap' = r.heap
          /\ err' = r.err
          /\ IF r.err # NoError
             THEN pc' = "raised" /\ si' = si
             ELSE IF si < Len(Sections)
                  THEN pc' = "merge" /\ si' = si + 1
                  ELSE pc' = AfterFragment(fi) /\ si' = si
    /\ UNCHANGED <<files, fi, base, data, loaded, out, tagVars>>

\* with out_path.open("w") as handle: yaml.dump(merged, handle, ...)
Dump ==
    /\ pc = "dump"
    /\ out' = [opened |-> TRUE, doc |-> Deref(merged, heap)]
    /\ pc' = "done"
    /\ UNCHANGED <<files, fi, si, heap, base, merged, data, loaded, err, tagVars>>

Next == LoadBase \/ LoadFragment \/ MergeSection \/ Dump

Spec == Init /\ [][Next]_vars

(***************************************************************************)
(* Vocabulary of the properties, read off the input files.                 *)
(***************************************************************************)
NumFrags == Len(files.frags)

SourcePath(k) == IF k = 0 THEN BasePath ELSE FragPath(k)

\* What a decoded document says, its aliases replaced by what they stand for.
RECURSIVE PlainValue(_, _)
PlainValue(x, top) ==
    CASE x.kind = "alias" -> PlainValue(Lookup(top, x.v), top)
      [] x.kind = "dict" ->
            PyDict([k \in DOMAIN x.v |-> <<x.v[k][1], PlainValue(x.v[k][2], top)>>])
      [] OTHER -> x

PlainDoc(doc) == IF doc.kind = "dict" THEN PlainValue(doc, doc.v) ELSE doc

\* Whether a decoded document uses an alias at its top level or in an item.
HasAlias(doc) ==
    /\ doc.kind = "dict"
    /\ \E k \in DOMAIN doc.v :
         \/ doc.v[k][2].kind = "alias"
         \/ /\ doc.v[k][2].kind = "dict"
            /\ \E j \in DOMAIN doc.v[k][2].v : doc.v[k][2].v[j][2].kind = "alias"

\* Source 0 is the base, source k the k-th fragment.
RawSource(k) == IF k = 0 THEN files.base ELSE files.frags[k]

Source(k) == PlainDoc(RawSource(k))

\* What _load_yaml returned for source k, as a value.
LoadedDoc(k) == PlainDoc(load_yaml(RawSource(k), SourcePath(k)).data)

\* The value of top-level key `key` in a document, if it has one.
HasTop(doc, key) == doc.kind = "dict" /\ HasKey(doc.v, key)

\* The items a document defines in a section: those of a mapping, else none.
SectionItems(doc, section) ==
    IF HasTop(doc, section) /\ Lookup(doc.v, section).kind = "dict"
    THEN Lookup(doc.v, section).v
    ELSE <<>>

Defines(k, section, name) == HasKey(SectionItems(Source(k), section), name)

\* A section key that is present with a value that is not a mapping.
BadSection(doc, section) ==
    HasTop(doc, section) /\ Lookup(doc.v, section).kind # "dict"

WellFormed(doc) ==
    doc.kind = "dict" /\ \A section \in SectionSet : ~BadSection(doc, section)

AllWellFormed == \A k \in 0..NumFrags : WellFormed(Source(k))

\* <<j, s, p>>: the p-th item of section s of fragment j is already defined
\* by an earlier source.
Collisions ==
    UNION {UNION {{<<j, s, p>> :
                    p \in {q \in DOMAIN SectionItems(Source(j), Sections[s]) :
                            \E i \in 0..(j - 1) :
                              Defines(i, Sections[s],
                                      SectionItems(Source(j), Sections[s])[q][1])}} :
                  s \in DOMAIN Sections} :
           j \in 1..NumFrags}

LexLeq(c, d) ==
    \/ c[1] < d[1]
    \/ c[1] = d[1] /\ c[2] < d[2]
    \/ c[1] = d[1] /\ c[2] = d[2] /\ c[3] <= d[3]

FirstCollision == CHOOSE c \in Collisions : \A d \in Collisions : LexLeq(c, d)

CollisionError(c) ==
    DuplicateKeyError(Sections[c[2]],
                      SectionItems(Source(c[1]), Sections[c[2]])[c[3]][1],
                      FragPath(c[1]))

\* The items of sources 0..k in a section, concatenated in source order.
RECURSIVE ItemsUpTo(_, _)
ItemsUpTo(section, k) ==
    IF k = 0 THEN SectionItems(Source(0), section)
    ELSE ItemsUpTo(section, k - 1) \o SectionItems(Source(k), section)

Range(q) == {q[k] : k \in DOMAIN q}

Finished == pc \in {"done", "raised"}

MergedDoc == Deref(merged, heap)

(***************************************************************************)
(* C1 (as stated): whenever two sources define the same item name in the   *)
(* same section, the finished run has failed with the duplicate-key error  *)
(* naming that section, that name and the later source's path, and has     *)
(* produced no output.  Read for inputs whose roots and section values are *)
(* all mappings, so that no other error can come first.                    *)
(***************************************************************************)
C1_DuplicateRejectionAsStated ==
    (Finished /\ AllWellFormed) =>
      \A c \in Collisions :
        /\ pc = "raised"
        /\ err = CollisionError(c)
        /\ ~out.opened

(***************************************************************************)
(* C1 (amended): whenever two sources define the same item name in the     *)
(* same section, the finished run has failed and produced no output; when  *)
(* every root and every section value is a mapping, the error is a         *)
(* duplicate-key error raised no later than the first collision in         *)
(* processing order, and it is that collision's error unless the base      *)
(* binds one mapping object to two places.                                 *)
(***************************************************************************)
\* Where a duplicate-key error was raised: fragment, section, item position.
ErrLocation ==
    <<err.path[2],
      CHOOSE s \in DOMAIN Sections : Sections[s] = err.section,
      CHOOSE p \in DOMAIN SectionItems(Source(err.path[2]), err.section) :
        SectionItems(Source(err.path[2]), err.section)[p][1] = err.key>>

C1_DuplicateRejection ==
    (Finished /\ Collisions # {}) =>
      /\ pc = "raised"
      /\ err # NoError
      /\ ~out.opened
      /\ AllWellFormed =>
            /\ err.type = "DuplicateKeyError"
            /\ err.path[1] = "fragment"
            /\ LexLeq(ErrLocation, FirstCollision)
            /\ ~HasAlias(RawSource(0)) => err = CollisionError(FirstCollision)

C1_Witness ==
    /\ pc = "raised"
    /\ AllWellFormed
    /\ Cardinality(Collisions) >= 2
    /\ ~HasAlias(RawSource(0))
    /\ err.type = "DuplicateKeyError"
    /\ err.path = FragPath(2)

(***************************************************************************)
(* C2: when no two sources define the same item name in the same section,  *)
(* a merge of well-formed inputs succeeds, and every section of a          *)
(* successfully merged document holds exactly the items of the sources,    *)
(* each name with the value its source gave it.                            *)
(***************************************************************************)
C2_Union ==
    (Finished /\ Collisions = {}) =>
      /\ AllWellFormed => pc = "done"
      /\ pc = "done" =>
            \A section \in SectionSet :
              /\ Range(SectionItems(out.doc, section))
                   = Range(ItemsUpTo(section, NumFrags))
              /\ Len(SectionItems(out.doc, section))
                   = Cardinality(KeySet(ItemsUpTo(section, NumFrags)))

(***************************************************************************)
(* C3: after a successful merge the keys of every merged section are the   *)
(* base's keys in the base's order, then each fragment's keys in that      *)
(* fragment's order, fragments in list order.                              *)
(***************************************************************************)
C3_Order ==
    pc = "done" =>
      \A section \in SectionSet :
        KeySeq(SectionItems(out.doc, section))
          = KeySeq(ItemsUpTo(section, NumFrags))

(***************************************************************************)
(* C4: once the base is loaded, the top-level keys of the merged document  *)
(* that are not sections are exactly the base's, in the base's order and   *)
(* with the base's values, whatever the fragments hold; the written        *)
(* document has them too, and no error is about a key that is not a        *)
(* section.                                                                *)
(***************************************************************************)
FourSections == {"Parameters", "Conditions", "Resources", "Outputs"}

NonSectionEntries(doc) == SelectSeq(doc.v, LAMBDA e : e[1] \notin FourSections)

BaseLoaded == pc # "load_base" /\ err # LoadError(BasePath)

C4_PassThrough ==
    BaseLoaded =>
      /\ NonSectionEntries(MergedDoc)
           = NonSectionEntries(LoadedDoc(0))
      /\ out.opened => NonSectionEntries(out.doc) = NonSectionEntries(MergedDoc)
      /\ err.section \in FourSections \cup {""}

(***************************************************************************)
(* C5: the destination is opened and written only by the last step, after  *)
(* the base and every fragment have been loaded and merged without error,  *)
(* and what is written is the fully merged document; a run that has raised *)
(* an error has not opened the destination.                                *)
(***************************************************************************)
C5_OutputAfterSuccess ==
    /\ out.opened =>
         /\ pc = "done"
         /\ err = NoError
         /\ fi = NumFrags
         /\ Len(loaded) = NumFrags
         /\ NumFrags > 0 => si = Len(Sections)
         /\ out.doc = MergedDoc
    /\ pc = "raised" => ~out.opened /\ err # NoError
    /\ pc = "done" => out.opened

C5_Witness ==
    /\ pc = "raised"
    /\ err.type = "DuplicateKeyError"
    /\ fi = 2
    /\ MergedDoc # LoadedDoc(0)
    /\ ~out.opened

(***************************************************************************)
(* C6: a finished run whose inputs (base or fragment) hold a section key   *)
(* with a value that is not a mapping has failed with the section-type     *)
(* error naming such a document and section, and has written nothing.      *)
(* Read for inputs whose roots are all mappings and in which no two        *)
(* sources define the same item, so that no other error can come first.    *)
(***************************************************************************)
AllRootsMappings == \A k \in 0..NumFrags : Source(k).kind = "dict"

C6_SectionTypeValidation ==
    (/\ Finished
     /\ AllRootsMappings
     /\ Collisions = {}
     /\ \E k \in 0..NumFrags, section \in SectionSet : BadSection(Source(k), section)) =>
      /\ pc = "raised"
      /\ ~out.opened
      /\ err.type = "SectionTypeError"
      /\ \E k \in 0..NumFrags :
            err.path = SourcePath(k) /\ BadSection(Source(k), err.section)

(***************************************************************************)
(* C7: a document whose decoded root is not a mapping is never loaded: the *)
(* run fails with the load error naming it; only the empty document (None) *)
(* is loaded as an empty mapping.                                          *)
(***************************************************************************)
MustReject(root) == root.kind # "dict" /\ root.kind # "none"

C7_RootValidation ==
    /\ (pc # "load_base" /\ MustReject(files.base)) => err = LoadError(BasePath)
    /\ \A k \in 1..NumFrags :
         (MustReject(files.frags[k]) /\ (fi > k \/ (fi = k /\ pc # "load_frag")))
            => err = LoadError(FragPath(k))

(***************************************************************************)
(* C8 (as stated): when a document is rejected for its root, no item of    *)
(* any fragment has yet been inserted into the merged document.  Read for  *)
(* a base whose root is a mapping.                                         *)
(***************************************************************************)
C8_ValidationBeforeMergeAsStated ==
    (err.type = "LoadError" /\ Source(0).kind = "dict") =>
      \/ merged = <<>>
      \/ MergedDoc = LoadedDoc(0)

(***************************************************************************)
(* C8 (amended): the base is loaded before any merge work; a fragment the  *)
(* loader rejects is rejected when its turn comes, after every earlier     *)
(* fragment has been merged in full, and before the destination is opened. *)
(***************************************************************************)
C8_ValidationInTurn ==
    err.type = "LoadError" =>
      /\ pc = "raised"
      /\ ~out.opened
      /\ err.path = BasePath =>
            /\ fi = 0 /\ merged = <<>> /\ heap = <<>> /\ loaded = <<>>
            /\ files.base.kind # "dict"
      /\ err.path # BasePath =>
            /\ err.path = FragPath(fi)
            /\ files.frags[fi].kind # "dict"
            /\ Len(loaded) = fi - 1
            /\ \A section \in SectionSet :
                 KeySet(ItemsUpTo(section, fi - 1))
                   \subseteq KeySet(SectionItems(MergedDoc, section))

C8_Witness ==
    /\ err = LoadError(FragPath(2))
    /\ MergedDoc # LoadedDoc(0)
    /\ \E section \in SectionSet : Defines(1, section, "A")

(***************************************************************************)
(* C9: the trees the loader returned for the base and for each fragment    *)
(* keep the keys and values they had when loaded, whatever has been merged *)
(* since.                                                                  *)
(***************************************************************************)
C9_InputsNotMutated ==
    /\ BaseLoaded => Deref(base, heap) = LoadedDoc(0)
    /\ \A k \in DOMAIN loaded :
         Deref(loaded[k], heap) = LoadedDoc(k)

(***************************************************************************)
(* Tagged values.  A YAML node is [kind, tag, value]: kind is "scalar"     *)
(* (value = the text, a sequence of characters), "sequence" (value = the   *)
(* item nodes) or "mapping" (value = <<key node, value node>> pairs); tag  *)
(* is the resolved tag, a sequence of characters: one of the six standard  *)
(* tags below or a custom tag that starts with "!".  Distinct nodes of a   *)
(* tree are distinct node objects (no anchors), texts are ASCII, and the   *)
(* text of an int node is a sequence of decimal digits.                    *)
(***************************************************************************)
MaxDepth == 2

StrTag == <<"tag:yaml.org,2002:", "s", "t", "r">>

IntTag == <<"tag:yaml.org,2002:", "i", "n", "t">>

BoolTag == <<"tag:yaml.org,2002:", "b", "o", "o", "l">>

NullTag == <<"tag:yaml.org,2002:", "n", "u", "l", "l">>

SeqTag == <<"tag:yaml.org,2002:", "s", "e", "q">>

MapTag == <<"tag:yaml.org,2002:", "m", "a", "p">>

ScalarNode(tag, text) == [kind |-> "scalar", tag |-> tag, value |-> text]

SequenceNode(tag, items) == [kind |-> "sequence", tag |-> tag, value |-> items]

MappingNode(tag, pairs) == [kind |-> "mapping", tag |-> tag, value |-> pairs]

Digits == <<"0", "1", "2", "3", "4", "5", "6", "7", "8", "9">>

DigitVal(c) == (CHOOSE d \in DOMAIN Digits : Digits[d] = c) - 1

\* int(text, b) for a text of decimal digits.
RECURSIVE ParseBase(_, _, _)
ParseBase(text, b, acc) ==
    IF text = <<>> THEN acc
    ELSE ParseBase(Tail(text), b, acc * b + DigitVal(Head(text)))

\* str(n) for n >= 0.
RECURSIVE IntText(_)
IntText(n) ==
    IF n < 10 THEN <<Digits[n + 1]>>
    ELSE IntText(n \div 10) \o <<Digits[(n % 10) + 1]>>

\* An exception leaving yaml.load; which exception it is, is not recorded.
Raised == [kind |-> "raise", v |-> <<>>]

\* SafeLoader's construct_yaml_int on a text of decimal digits: "0" is 0, a
\* text with a leading 0 is read in base 8 (int raises on a digit 8 or 9),
\* any other is read in base 10.
ParseInt(text) ==
    IF text = <<"0">> THEN PyInt(0)
    ELSE IF text[1] = "0"
         THEN IF \A k \in DOMAIN text : DigitVal(text[k]) < 8
              THEN PyInt(ParseBase(text, 8, 0))
              ELSE Raised
         ELSE PyInt(ParseBase(text, 10, 0))

UpperLetters ==
    <<"A", "B", "C", "D", "E", "F", "G", "H", "I", "J", "K", "L", "M",
      "N", "O", "P", "Q", "R", "S", "T", "U", "V", "W", "X", "Y", "Z">>

LowerLetters ==
    <<"a", "b", "c", "d", "e", "f", "g", "h", "i", "j", "k", "l", "m",
      "n", "o", "p", "q", "r", "s", "t", "u", "v", "w", "x", "y", "z">>

\* value.lower() on a text of ASCII characters.
Lower(text) ==
    [k \in DOMAIN text |->
        IF \E i \in DOMAIN UpperLetters : UpperLetters[i] = text[k]
        THEN LowerLetters[CHOOSE i \in DOMAIN UpperLetters : UpperLetters[i] = text[k]]
        ELSE text[k]]

\* SafeLoader's bool_values: the keys that map to True, and those that map to False.
TrueTexts == {<<"y", "e", "s">>, <<"t", "r", "u", "e">>, <<"o", "n">>}

FalseTexts == {<<"n", "o">>, <<"f", "a", "l", "s", "e">>, <<"o", "f", "f">>}

\* SafeLoader's construct_yaml_bool: bool_values[value.lower()], a KeyError
\* for any other text.
ParseBool(text) ==
    IF Lower(text) \in TrueTexts THEN PyBool(TRUE)
    ELSE IF Lower(text) \in FalseTexts THEN PyBool(FALSE)
    ELSE Raised

\* isinstance(key, Hashable): lists and dicts are not; a Tagged object is.
Hashable(x) == x.kind \notin {"list", "dict"}

\* Whether two hashable objects are the same dict key.  Tagged defines no
\* __eq__, so a Tagged object equals only itself, and two key nodes never
\* construct the same object; True == 1 and False == 0.
PyEq(x, y) ==
    /\ x.kind # "tagged"
    /\ y.kind # "tagged"
    /\ \/ x = y
       \/ /\ {x.kind, y.kind} = {"int", "bool"}
          /\ (IF x.kind = "int" THEN x.v ELSE IF x.v THEN 1 ELSE 0)
             = (IF y.kind = "int" THEN y.v ELSE IF y.v THEN 1 ELSE 0)

\* d[key] = val on a sequence of pairs: the entry of an equal key keeps its
\* key and its place and takes the value; otherwise the pair is appended.
DictSet(pairs, key, val) ==
    IF \E k \in DOMAIN pairs : PyEq(pairs[k][1], key)
    THEN [k \in DOMAIN pairs |->
            IF PyEq(pairs[k][1], key) THEN <<pairs[k][1], val>> ELSE pairs[k]]
    ELSE Append(pairs, <<key, val>>)

\* str(x), as _represent_tagged applies it to a payload that is no dict or list.
PyToStr(x) ==
    CASE x.kind = "str" -> x.v
      [] x.kind = "int" -> IntText(x.v)
      [] x.kind = "bool" -> IF x.v THEN <<"T", "r", "u", "e">> ELSE <<"F", "a", "l", "s", "e">>
      [] x.kind = "none" -> <<"N", "o", "n", "e">>
      [] x.kind = "list" -> <<"[", "]">>
      [] x.kind = "dict" -> <<"{", "}">>
      [] OTHER -> <<"<", "T", "a", "g", "g", "e", "d", ">">>

RECURSIVE construct_object(_)
RECURSIVE construct_sequence(_)
RECURSIVE construct_pairs(_, _)
RECURSIVE construct_tagged(_, _)

\* loader.construct_sequence(node): the list of the items' values; an
\* exception raised for an item leaves the call.
construct_sequence(n) ==
    LET items == [k \in DOMAIN n.value |-> construct_object(n.value[k])]
    IN IF \E k \in DOMAIN items : items[k] = Raised THEN Raised ELSE PyList(items)

\* loader.construct_mapping(node): for each pair the key is constructed,
\* an unhashable key is rejected (ConstructorError), the value is
\* constructed, and the pair is inserted into the dict.
construct_pairs(pairs, acc) ==
    IF pairs = <<>> THEN PyDict(acc)
    ELSE LET key == construct_object(Head(pairs)[1])
             val == construct_object(Head(pairs)[2])
         IN IF key = Raised \/ ~Hashable(key) \/ val = Raised THEN Raised
            ELSE construct_pairs(Tail(pairs), DictSet(acc, key, val))

construct_mapping(n) == construct_pairs(n.value, <<>>)

\* loader.construct_scalar(node): the text of the node.
construct_scalar(n) == n.value

\* _construct_tagged(loader, tag_suffix, node)
construct_tagged(tag_suffix, n) ==
    LET tag == <<"!">> \o tag_suffix
        value == CASE n.kind = "scalar" -> PyStr(construct_scalar(n))
                   [] n.kind = "sequence" -> construct_sequence(n)
                   [] n.kind = "mapping" -> construct_mapping(n)
    IN IF value = Raised THEN Raised ELSE Tagged(tag, value)

\* CfnLoader's dispatch on the node's tag: the multi-constructor registered
\* for the prefix "!" gets the rest of the tag, the standard tags are SafeLoader's.
construct_object(n) ==
    IF n.tag[1] = "!" THEN construct_tagged(Tail(n.tag), n)
    ELSE CASE n.tag = StrTag -> PyStr(n.value)
           [] n.tag = IntTag -> ParseInt(n.value)
           [] n.tag = BoolTag -> ParseBool(n.value)
           [] n.tag = NullTag -> PyNone
           [] n.tag = SeqTag -> construct_sequence(n)
           [] n.tag = MapTag -> construct_mapping(n)

RECURSIVE represent_data(_)
RECURSIVE represent_tagged(_)

\* dumper.represent_scalar / represent_sequence / represent_mapping
represent_scalar(tag, text) == ScalarNode(tag, text)

represent_sequence(tag, items) ==
    SequenceNode(tag, [k \in DOMAIN items |-> represent_data(items[k])])

represent_mapping(tag, pairs) ==
    MappingNode(tag, [k \in DOMAIN pairs |->
                        <<represent_data(pairs[k][1]), represent_data(pairs[k][2])>>])

\* Variant of represent_tagged that tests the payload's truth with its type.
represent_tagged_Truthy(d) ==
    LET tag == d.v[1]
        value == d.v[2]
    IN IF value.kind = "dict" /\ ~Falsy(value) THEN represent_mapping(tag, value.v)
       ELSE IF value.kind = "list" /\ ~Falsy(value) THEN represent_sequence(tag, value.v)
       ELSE represent_scalar(tag, PyToStr(value))

\* _represent_tagged(dumper, data)
represent_tagged(d) ==
    LET tag == d.v[1]
        value == d.v[2]
    IN IF value.kind = "dict" THEN represent_mapping(tag, value.v)
       ELSE IF value.kind = "list" THEN represent_sequence(tag, value.v)
       ELSE represent_scalar(tag, PyToStr(value))

\* CfnDumper's dispatch on the value's type: the representer registered for
\* Tagged, and SafeDumper's for the built-in types.
represent_data(x) ==
    CASE x.kind = "tagged" -> represent_tagged(x)
      [] x.kind = "str" -> represent_scalar(StrTag, x.v)
      [] x.kind = "int" -> represent_scalar(IntTag, IntText(x.v))
      [] x.kind = "bool" ->
            represent_scalar(BoolTag, IF x.v THEN <<"t", "r", "u", "e">>
                                      ELSE <<"f", "a", "l", "s", "e">>)
      [] x.kind = "none" -> represent_scalar(NullTag, <<"n", "u", "l", "l">>)
      [] x.kind = "list" -> represent_sequence(SeqTag, x.v)
      [] x.kind = "dict" -> represent_mapping(MapTag, x.v)

(***************************************************************************)
(* Parsed nodes: plain scalars, tagged scalars, and sequences and mappings *)
(* (plain or tagged) of nodes one level down.                              *)
(***************************************************************************)
CustomTags == {<<"!", "R", "e", "f">>, <<"!", "G", "e", "t", "A", "t", "t">>}

PlainA == ScalarNode(StrTag, <<"a">>)

KeyK == ScalarNode(StrTag, <<"k">>)

KeyJ == ScalarNode(StrTag, <<"j">>)

KeyOne == ScalarNode(IntTag, <<"1">>)

KeyYes == ScalarNode(BoolTag, <<"y", "E", "s">>)

KeyTagged == ScalarNode(<<"!", "G", "e", "t", "A", "t", "t">>, <<"a">>)

KeyList == SequenceNode(SeqTag, <<PlainA>>)

PlainScalars ==
    {PlainA,
     ScalarNode(IntTag, <<"0">>),
     ScalarNode(BoolTag, <<"y", "E", "s">>),
     ScalarNode(NullTag, <<"~">>)}

\* Scalars with an explicit standard tag: an octal text, a text that is no
\* octal number, a text that is no bool.
ExplicitScalars ==
    {ScalarNode(IntTag, <<"0", "1", "0">>),
     ScalarNode(IntTag, <<"0", "8">>),
     ScalarNode(BoolTag, <<"a">>)}

TaggedScalars ==
    {ScalarNode(tag, text) : tag \in CustomTags,
                             text \in {<<>>, <<"a">>, <<"0">>}}

\* Pair lists whose keys are equal, are equal as Python objects, are two
\* Tagged objects of the same content, or are unhashable.
KeyedPairLists ==
    {<<<<KeyK, PlainA>>, <<KeyK, ScalarNode(StrTag, <<"b">>)>>>>,
     <<<<KeyOne, PlainA>>, <<KeyYes, ScalarNode(StrTag, <<"b">>)>>>>,
     <<<<KeyTagged, PlainA>>, <<KeyTagged, ScalarNode(StrTag, <<"b">>)>>>>,
     <<<<KeyList, PlainA>>>>}

RECURSIVE NodesOfDepth(_)
NodesOfDepth(d) ==
    IF d = 0 THEN PlainScalars \cup TaggedScalars
    ELSE LET inner == NodesOfDepth(d - 1)
             itemLists == {<<>>} \cup {<<x>> : x \in inner \cup ExplicitScalars}
                                  \cup {<<x, PlainA>> : x \in inner}
             pairLists == {<<>>} \cup {<<<<KeyK, x>>>> : x \in inner}
                                  \cup {<<<<KeyK, x>>, <<KeyJ, PlainA>>>> : x \in inner}
                                  \cup KeyedPairLists
         IN PlainScalars \cup TaggedScalars
            \cup {SequenceNode(tag, q) : tag \in CustomTags \cup {SeqTag}, q \in itemLists}
            \cup {MappingNode(tag, q) : tag \in CustomTags \cup {MapTag}, q \in pairLists}

TaggedNodes == {n \in NodesOfDepth(MaxDepth) : n.tag \in CustomTags}

MergeIdle ==
    /\ files = [base |-> PyDict(<<>>), frags |-> <<>>]
    /\ pc = "idle"
    /\ fi = 0 /\ si = 0
    /\ heap = <<>> /\ base = <<>> /\ merged = <<>> /\ data = <<>> /\ loaded = <<>>
    /\ err = NoError
    /\ out = [opened |-> FALSE, doc |-> PyNone]

InitTag ==
    /\ MergeIdle
    /\ tpc = "parsed"
    /\ node \in TaggedNodes
    /\ tval = PyNone /\ tnode = PyNone /\ tval2 = PyNone

\* Loading: the constructor builds the value of the parsed node, or raises.
Construct ==
    /\ tpc = "parsed"
    /\ tval' = construct_object(node)
    /\ tpc' = IF construct_object(node) = Raised THEN "raised" ELSE "constructed"
    /\ UNCHANGED <<node, tnode, tval2, mergeVars>>

\* Dumping: the representer builds the node that is written.
Represent ==
    /\ tpc = "constructed"
    /\ tnode' = represent_data(tval)
    /\ tpc' = "represented"
    /\ UNCHANGED <<node, tval, tval2, mergeVars>>

\* Loading the written node again.
Reload ==
    /\ tpc = "represented"
    /\ tval2' = construct_object(tnode)
    /\ tpc' = "reloaded"
    /\ UNCHANGED <<node, tval, tnode, mergeVars>>

NextTag == Construct \/ Represent \/ Reload

SpecTag == InitTag /\ [][NextTag]_vars

(***************************************************************************)
(* The nodes that denote a value of the document model: every scalar with  *)
(* a standard tag has a text of its type, and the keys of every mapping    *)
(* are scalars or tagged nodes, no two of them the same key.               *)
(***************************************************************************)
ShapeOf(x) ==
    IF x.kind = "dict" THEN "mapping" ELSE IF x.kind = "list" THEN "sequence" ELSE "scalar"

RECURSIVE DenotesValue(_)
DenotesValue(n) ==
    CASE n.kind = "scalar" -> n.tag[1] = "!" \/ construct_object(n) # Raised
      [] n.kind = "sequence" -> \A k \in DOMAIN n.value : DenotesValue(n.value[k])
      [] n.kind = "mapping" ->
            /\ \A k \in DOMAIN n.value :
                  /\ DenotesValue(n.value[k][1])
                  /\ DenotesValue(n.value[k][2])
                  /\ n.value[k][1].kind = "scalar" \/ n.value[k][1].tag[1] = "!"
            /\ \A i, j \in DOMAIN n.value :
                  i < j => ~PyEq(construct_object(n.value[i][1]),
                                 construct_object(n.value[j][1]))

(***************************************************************************)
(* C10: for a tagged node that is a scalar, a sequence or a mapping of the *)
(* document model, constructing succeeds and then representing gives a     *)
(* node with the same tag and the same shape; a scalar keeps its text, a   *)
(* sequence or mapping its length; the constructed value holds the tag and *)
(* a payload of that shape; and loading the represented node gives back an *)
(* equal value.                                                            *)
(***************************************************************************)
C10_TagRoundTrip ==
    DenotesValue(node) =>
        /\ tpc # "raised"
        /\ tpc \in {"constructed", "represented", "reloaded"} =>
             /\ tval.kind = "tagged"
             /\ tval.v[1] = node.tag
             /\ ShapeOf(tval.v[2]) = node.kind
        /\ tpc \in {"represented", "reloaded"} =>
             /\ tnode.tag = node.tag
             /\ tnode.kind = node.kind
             /\ Len(tnode.value) = Len(node.value)
             /\ node.kind = "scalar" => tnode = node
        /\ tpc = "reloaded" => tval2 = tval

C10_Witness ==
    /\ tpc = "reloaded"
    /\ DenotesValue(node)
    /\ node.kind = "sequence"
    /\ Len(node.value) = 2
    /\ node.value[1].kind = "mapping"
    /\ node.value[1].tag \in CustomTags
    /\ Len(node.value[1].value) = 2
    /\ tnode # node

====
